---- MODULE Spec2Model ----
(***************************************************************************)
(* Model of the build configuration (next.config.ts) and of the Auth page  *)
(* (src/app/auth/page.tsx).                                                *)
(*                                                                         *)
(* Three specifications share the module:                                  *)
(*   SpecHook    the monitoring redaction hook beforeSend applied to       *)
(*               error events                                              *)
(*   SpecConfig  evaluation of the configuration module under a process    *)
(*               environment, and image requests checked against the       *)
(*               remote-pattern allow-list of the evaluated configuration  *)
(*   SpecPage    rendering of the Auth page and resolution of the          *)
(*               suspended provider button                                 *)
(***************************************************************************)
EXTENDS Integers, Sequences, FiniteSets, TLC

VARIABLES
    heap,       \* error events in memory: reference -> event value
    captured,   \* value of the event when it was captured
    input,      \* value of the event right before the last beforeSend call
    returned,   \* what the last beforeSend call returned (a reference)
    threw,      \* whether the last beforeSend call raised an error
    calls,      \* number of beforeSend calls made on the event
    env,        \* process.env when the configuration module is evaluated
    now,        \* value Date.now() yields during the evaluation
    config,     \* the evaluated module: nextConfig and the plugin options
    image,      \* last remote image handed to the image pipeline
    pages       \* Auth page instances, one per page request

hookVars   == <<heap, captured, input, returned, threw, calls>>
configVars == <<env, now, config, image>>
pageVars   == <<pages>>
vars       == <<heap, captured, input, returned, threw, calls,
                env, now, config, image, pages>>

(***************************************************************************)
(* Optional values.  A JavaScript value that may be undefined (or null) is *)
(* a sequence of length at most one: << >> is undefined, <<v>> is v.       *)
(***************************************************************************)
undefined == << >>
Some(v) == <<v>>
Optional(S) == {undefined} \cup {Some(v) : v \in S}

(***************************************************************************)
(* Bounds                                                                  *)
(***************************************************************************)
MaxHeaders == 3    \* most header entries an enumerated event carries
MaxCalls == 2      \* most beforeSend calls made on one event
MaxEvents == 2     \* references an event may be allocated at
MaxNow == 2        \* Date.now() ranges over 1..MaxNow
MaxPages == 6      \* most page requests served

(***************************************************************************)
(* The part of the state a specification does not use stays as it is here. *)
(***************************************************************************)
HookIdle ==
    /\ heap = << >>
    /\ captured = undefined
    /\ input = undefined
    /\ returned = undefined
    /\ threw = FALSE
    /\ calls = 0

ConfigIdle ==
    /\ env = [BUILD_TARGET |-> undefined, NODE_ENV |-> undefined,
              CI |-> undefined, NEXT_PUBLIC_BUILD_VERSION |-> undefined]
    /\ now = 1
    /\ config = undefined
    /\ image = undefined

PageIdle == pages = << >>

(***************************************************************************)
(* Error events (Event of @sentry/core, the fields the hook can see)       *)
(***************************************************************************)
HeaderKeys == {"Authorization", "Cookie", "authorization", "cookie", "User-Agent"}
HeaderValues == {"Bearer t0k", "sid=1"}
Urls == {"/auth", "/"}
Messages == {"TypeError", "RangeError"}
Refs == 1..MaxEvents

HeaderMaps ==
    UNION {[K -> HeaderValues] :
              K \in {S \in SUBSET HeaderKeys : Cardinality(S) <= MaxHeaders}}
Requests == [url : Urls, headers : Optional(HeaderMaps)]
Events == [message : Messages, request : Optional(Requests)]

(***************************************************************************)
(* beforeSend, next.config.ts:171-179                                      *)
(***************************************************************************)
\* Variant: the property is looked up without regard to letter case.
LowerCase(key) ==
    CASE key = "Authorization" -> "authorization"
      [] key = "Cookie" -> "cookie"
      [] key = "User-Agent" -> "user-agent"
      [] OTHER -> key

deletePropertyIgnoringCase(headers, key) ==
    [k \in {j \in DOMAIN headers : LowerCase(j) # LowerCase(key)} |-> headers[k]]

\* delete headers[key]: removes the own property with exactly this name
deleteProperty(headers, key) ==
    [k \in (DOMAIN headers) \ {key} |-> headers[k]]

\* event.request?.headers is truthy: request and headers are both defined
\* (an object, even an empty one, is truthy)
hasHeaders(event) ==
    /\ event.request # undefined
    /\ event.request[1].headers # undefined

\* Variant: event.request.headers read without optional chaining, which
\* raises a TypeError on an event that has no request.
beforeSendUnchained(h, ref) ==
    LET event == h[ref] IN
    IF event.request = undefined
    THEN [heap |-> h, ret |-> undefined, threw |-> TRUE]
    ELSE IF event.request[1].headers # undefined
    THEN LET headers == event.request[1].headers[1]
             stripped == deleteProperty(deleteProperty(headers, "Authorization"),
                                        "Cookie")
         IN [heap |-> [h EXCEPT ![ref].request =
                          Some([event.request[1] EXCEPT !.headers = Some(stripped)])],
             ret |-> Some(ref),
             threw |-> FALSE]
    ELSE [heap |-> h, ret |-> Some(ref), threw |-> FALSE]

\* Variant: the second deletion sits in an else branch, so one call removes
\* at most one of the two headers.
beforeSendOneAtATime(h, ref) ==
    LET event == h[ref] IN
    IF hasHeaders(event)
    THEN LET headers == event.request[1].headers[1]
             stripped == IF "Authorization" \in DOMAIN headers
                         THEN deleteProperty(headers, "Authorization")
                         ELSE deleteProperty(headers, "Cookie")
         IN [heap |-> [h EXCEPT ![ref].request =
                          Some([event.request[1] EXCEPT !.headers = Some(stripped)])],
             ret |-> Some(ref),
             threw |-> FALSE]
    ELSE [heap |-> h, ret |-> Some(ref), threw |-> FALSE]

\* The call beforeSend(event) on the event at reference ref: the headers
\* object is mutated in place and the reference itself is returned.
beforeSend(h, ref) ==
    LET event == h[ref] IN
    IF hasHeaders(event)
    THEN LET headers == event.request[1].headers[1]
             stripped == deleteProperty(deleteProperty(headers, "Authorization"),
                                        "Cookie")
         IN [heap |-> [h EXCEPT ![ref].request =
                          Some([event.request[1] EXCEPT !.headers = Some(stripped)])],
             ret |-> Some(ref),
             threw |-> FALSE]
    ELSE [heap |-> h, ret |-> Some(ref), threw |-> FALSE]

(***************************************************************************)
(* The configuration module, next.config.ts                                *)
(***************************************************************************)
\* Variant: the build target is compared without regard to letter case.
isMobileBuildIgnoringCase(e) ==
    e.BUILD_TARGET \in {Some("mobile"), Some("Mobile")}

\* process.env.BUILD_TARGET === "mobile"
isMobileBuild(e) == e.BUILD_TARGET = Some("mobile")

\* Variant: the last entry of the allow-list names the http protocol.
remotePatternsWithHttp ==
    << [protocol |-> "https", hostname |-> "gateway.mesh3.network"],
       [protocol |-> "https", hostname |-> "gateway.lighthouse.storage"],
       [protocol |-> "https", hostname |-> "assets.react-photo-album.com"],
       [protocol |-> "https", hostname |-> "lh3.googleusercontent.com"],
       [protocol |-> "https", hostname |-> "cdn.discordapp.com"],
       [protocol |-> "https", hostname |-> "r2.unreal.art"],
       [protocol |-> "http", hostname |-> "pub-bc2d2d9bc6fb490dbb380efd5781048d.r2.dev"] >>

\* images.remotePatterns
remotePatterns ==
    << [protocol |-> "https", hostname |-> "gateway.mesh3.network"],
       [protocol |-> "https", hostname |-> "gateway.lighthouse.storage"],
       [protocol |-> "https", hostname |-> "assets.react-photo-album.com"],
       [protocol |-> "https", hostname |-> "lh3.googleusercontent.com"],
       [protocol |-> "https", hostname |-> "cdn.discordapp.com"],
       [protocol |-> "https", hostname |-> "r2.unreal.art"],
       [protocol |-> "https", hostname |-> "pub-bc2d2d9bc6fb490dbb380efd5781048d.r2.dev"] >>

\* `1.0.0-${Date.now()}`
BuildVersion(t) == "1.0.0-" \o ToString(t)

\* Variant: the storage URL names a host the allow-list does not hold.
NEXT_PUBLIC_R2_STORAGE_URL_Stale == "https://storage.unreal.art"

NEXT_PUBLIC_R2_STORAGE_URL == "https://r2.unreal.art"
NEXT_PUBLIC_LIGHTHOUSE_GATE_WAY == "https://gateway.lighthouse.storage/ipfs/"

\* the object literal nextConfig evaluated under process.env e at time t
nextConfig(e, t) ==
    [output |-> IF isMobileBuild(e) THEN Some("export") ELSE undefined,
     trailingSlash |-> isMobileBuild(e),
     images |-> [remotePatterns |-> remotePatterns],
     env |-> [NEXT_PUBLIC_BUILD_VERSION |-> BuildVersion(t),
              NEXT_PUBLIC_R2_STORAGE_URL |-> NEXT_PUBLIC_R2_STORAGE_URL,
              NEXT_PUBLIC_LIGHTHOUSE_GATE_WAY |-> NEXT_PUBLIC_LIGHTHOUSE_GATE_WAY,
              NEXT_PUBLIC_DEBUG |->
                  IF e.NODE_ENV = Some("development") THEN "true" ELSE "false"]]

\* Sampling rates are kept in percent: 0.2 is 20, 1.0 is 100, 0.1 is 10.
\* Variant: the two branches of the conditional are exchanged.
tracesSampleRateSwapped(e) ==
    IF e.NODE_ENV = Some("production") THEN 100 ELSE 20

tracesSampleRate(e) ==
    IF e.NODE_ENV = Some("production") THEN 20 ELSE 100
replaysSessionSampleRate == 10
replaysOnErrorSampleRate == 100

\* the object literal sentryWebpackPluginOptions evaluated under process.env e
\* (its beforeSend member is the operator beforeSend above)
sentryWebpackPluginOptions(e) ==
    [silent |-> (e.CI = undefined \/ e.CI = Some("")),
     tracesSampleRate |-> tracesSampleRate(e),
     replaysSessionSampleRate |-> replaysSessionSampleRate,
     replaysOnErrorSampleRate |-> replaysOnErrorSampleRate,
     release |-> [name |-> e.NEXT_PUBLIC_BUILD_VERSION,
                  create |-> TRUE,
                  finalize |-> TRUE]]

(***************************************************************************)
(* Remote images.  A URL string is split into protocol, hostname and the   *)
(* rest; an image is admitted when some remote pattern matches it.         *)
(***************************************************************************)
\* first index >= i at which pat occurs in s, 0 when there is none
RECURSIVE IndexOf(_, _, _)
IndexOf(s, pat, i) ==
    IF i + Len(pat) - 1 > Len(s) THEN 0
    ELSE IF SubSeq(s, i, i + Len(pat) - 1) = pat THEN i
    ELSE IndexOf(s, pat, i + 1)

\* the smaller of two indexes, where 0 stands for "no occurrence"
FirstOf(a, b) == IF a = 0 THEN b ELSE IF b = 0 THEN a ELSE IF a < b THEN a ELSE b

ParseUrl(s) ==
    LET sep == IndexOf(s, "://", 1)
        hostStart == sep + 3
        hostEnd == FirstOf(IndexOf(s, "/", hostStart), IndexOf(s, ":", hostStart))
    IN [protocol |-> SubSeq(s, 1, sep - 1),
        hostname |-> IF hostEnd = 0 THEN SubSeq(s, hostStart, Len(s))
                     ELSE SubSeq(s, hostStart, hostEnd - 1)]

\* a pattern that gives protocol and hostname only: both must be equal
matchRemotePattern(pattern, url) ==
    /\ pattern.protocol = url.protocol
    /\ pattern.hostname = url.hostname

hasRemoteMatch(patterns, url) ==
    \E i \in 1..Len(patterns) : matchRemotePattern(patterns[i], url)

ImageHosts ==
    {"gateway.mesh3.network", "gateway.lighthouse.storage",
     "assets.react-photo-album.com", "lh3.googleusercontent.com",
     "cdn.discordapp.com", "r2.unreal.art",
     "pub-bc2d2d9bc6fb490dbb380efd5781048d.r2.dev",
     "evil.example.com", "sub.r2.unreal.art", "r2.unreal.art.evil.com",
     "storage.unreal.art"}
ImageUrls ==
    {p \o "://" \o h \o "/a.png" : p \in {"https", "http"}, h \in ImageHosts}
    \cup {"https://r2.unreal.art", "https://r2.unreal.art:8443/a.png",
          "https://gateway.lighthouse.storage/ipfs/Qm1",
          "https://storage.unreal.art", "ftp://cdn.discordapp.com/a.png"}

(***************************************************************************)
(* SpecConfig: the configuration module is evaluated under some process    *)
(* environment, and remote images are checked against its allow-list.      *)
(***************************************************************************)
Environments ==
    [BUILD_TARGET : Optional({"mobile", "Mobile", "web"}),
     NODE_ENV : Optional({"production", "development", "test"}),
     CI : Optional({"true"}),
     NEXT_PUBLIC_BUILD_VERSION : Optional({"1.0.0-1", "0.9.0"})]

InitConfig ==
    /\ HookIdle
    /\ PageIdle
    /\ env \in Environments
    /\ now \in 1..MaxNow
    /\ config = undefined
    /\ image = undefined

\* the clock advances
Tick ==
    /\ now < MaxNow
    /\ now' = now + 1
    /\ UNCHANGED <<env, config, image, hookVars, pageVars>>

\* the framework loads next.config.ts: the module body runs top to bottom
EvaluateConfig ==
    /\ config' = Some([nextConfig |-> nextConfig(env, now),
                       sentryWebpackPluginOptions |-> sentryWebpackPluginOptions(env)])
    /\ UNCHANGED <<env, now, image, hookVars, pageVars>>

\* the image pipeline is asked for a remote image
RequestImage ==
    /\ config # undefined
    /\ \E u \in ImageUrls :
          LET url == ParseUrl(u) IN
          image' = Some([src |-> u,
                         protocol |-> url.protocol,
                         hostname |-> url.hostname,
                         admitted |-> hasRemoteMatch(
                             config[1].nextConfig.images.remotePatterns, url)])
    /\ UNCHANGED <<env, now, config, hookVars, pageVars>>

NextConfig == Tick \/ EvaluateConfig \/ RequestImage

SpecConfig == InitConfig /\ [][NextConfig]_vars

EvaluatedNextConfig == config[1].nextConfig
EvaluatedPluginOptions == config[1].sentryWebpackPluginOptions

(***************************************************************************)
(* C3.  When BUILD_TARGET equals "mobile" the build configuration has      *)
(* output = "export" and trailingSlash = true; for every other value of    *)
(* BUILD_TARGET, unset included, output is undefined and trailingSlash is  *)
(* false.  The two settings are never in a mixed state.                    *)
(***************************************************************************)
C3_MobileBuildIsStaticExport ==
    config # undefined =>
        /\ env.BUILD_TARGET = Some("mobile") =>
              /\ EvaluatedNextConfig.output = Some("export")
              /\ EvaluatedNextConfig.trailingSlash = TRUE
        /\ env.BUILD_TARGET # Some("mobile") =>
              /\ EvaluatedNextConfig.output = undefined
              /\ EvaluatedNextConfig.trailingSlash = FALSE
        /\ (EvaluatedNextConfig.output = Some("export"))
              = EvaluatedNextConfig.trailingSlash

\* the configuration was evaluated for a mobile build
C3_Witness ==
    /\ config # undefined
    /\ env.BUILD_TARGET = Some("mobile")
    /\ EvaluatedNextConfig.output = Some("export")
    /\ EvaluatedNextConfig.trailingSlash = TRUE

(***************************************************************************)
(* C4.  A remote image is admitted by the image allow-list only if its     *)
(* protocol is https and its hostname is exactly one of the seven          *)
(* configured hosts; an image with another hostname, or with a listed      *)
(* hostname over another protocol, is rejected.  The list holds exactly    *)
(* seven entries, all https, for every value of the build environment.     *)
(***************************************************************************)
SevenHosts ==
    {"gateway.mesh3.network", "gateway.lighthouse.storage",
     "assets.react-photo-album.com", "lh3.googleusercontent.com",
     "cdn.discordapp.com", "r2.unreal.art",
     "pub-bc2d2d9bc6fb490dbb380efd5781048d.r2.dev"}

C4_AllowListAdmitsOnlySevenHttpsHosts ==
    config # undefined =>
        LET patterns == EvaluatedNextConfig.images.remotePatterns IN
        /\ Len(patterns) = 7
        /\ \A i \in 1..Len(patterns) : patterns[i].protocol = "https"
        /\ {patterns[i].hostname : i \in 1..Len(patterns)} = SevenHosts
        /\ image # undefined =>
              /\ image[1].admitted =>
                    (image[1].protocol = "https" /\ image[1].hostname \in SevenHosts)
              /\ (image[1].protocol # "https" \/ image[1].hostname \notin SevenHosts)
                    => ~image[1].admitted

\* an image on a listed host was requested over http and rejected
C4_Witness ==
    /\ config # undefined
    /\ image # undefined
    /\ image[1].hostname = "pub-bc2d2d9bc6fb490dbb380efd5781048d.r2.dev"
    /\ image[1].protocol = "http"
    /\ ~image[1].admitted

(***************************************************************************)
(* C7.  The traces sampling rate is 20% when NODE_ENV is "production" and  *)
(* 100% when NODE_ENV is "development"; the session-replay rate is 10% and *)
(* the replay-on-error rate is 100% for every value of NODE_ENV.           *)
(***************************************************************************)
C7_SamplingRates ==
    config # undefined =>
        /\ env.NODE_ENV = Some("production") =>
              EvaluatedPluginOptions.tracesSampleRate = 20
        /\ env.NODE_ENV = Some("development") =>
              EvaluatedPluginOptions.tracesSampleRate = 100
        /\ EvaluatedPluginOptions.replaysSessionSampleRate = 10
        /\ EvaluatedPluginOptions.replaysOnErrorSampleRate = 100

\* the configuration was evaluated for a production build
C7_Witness ==
    /\ config # undefined
    /\ env.NODE_ENV = Some("production")
    /\ EvaluatedPluginOptions.tracesSampleRate = 20
    /\ EvaluatedPluginOptions.replaysSessionSampleRate = 10

(***************************************************************************)
(* C9.  The release name given to the monitoring plugin equals the         *)
(* NEXT_PUBLIC_BUILD_VERSION value the build configuration injects into    *)
(* the client bundle ("1.0.0-<timestamp>"), for every state of the build   *)
(* environment, also when NEXT_PUBLIC_BUILD_VERSION is not set in the      *)
(* process environment before the configuration is evaluated.              *)
(***************************************************************************)
C9_ReleaseNameIsInjectedBuildVersion ==
    config # undefined =>
        EvaluatedPluginOptions.release.name
            = Some(EvaluatedNextConfig.env.NEXT_PUBLIC_BUILD_VERSION)

(***************************************************************************)
(* C10.  Every storage URL the build configuration injects into the client *)
(* bundle (NEXT_PUBLIC_R2_STORAGE_URL, NEXT_PUBLIC_LIGHTHOUSE_GATE_WAY)    *)
(* uses the https protocol and a hostname the image allow-list admits, so  *)
(* an image served from an injected storage origin is never rejected.      *)
(***************************************************************************)
InjectedStorageUrls ==
    {EvaluatedNextConfig.env.NEXT_PUBLIC_R2_STORAGE_URL,
     EvaluatedNextConfig.env.NEXT_PUBLIC_LIGHTHOUSE_GATE_WAY}

C10_StorageOriginsAreAdmitted ==
    config # undefined =>
        /\ \A u \in InjectedStorageUrls :
              /\ ParseUrl(u).protocol = "https"
              /\ hasRemoteMatch(EvaluatedNextConfig.images.remotePatterns, ParseUrl(u))
        /\ image # undefined =>
              \A u \in InjectedStorageUrls :
                  (/\ image[1].protocol = ParseUrl(u).protocol
                   /\ image[1].hostname = ParseUrl(u).hostname) => image[1].admitted

\* an image under the injected Lighthouse gateway was requested and admitted
C10_Witness ==
    /\ config # undefined
    /\ image # undefined
    /\ image[1].src = "https://gateway.lighthouse.storage/ipfs/Qm1"
    /\ image[1].hostname = ParseUrl(EvaluatedNextConfig.env.NEXT_PUBLIC_LIGHTHOUSE_GATE_WAY).hostname
    /\ image[1].admitted

(***************************************************************************)
(* The Auth page, src/app/auth/page.tsx                                    *)
(***************************************************************************)
\* the fallback of the Suspense boundary
Fallback == [node |-> "div", text |-> "Loading..."]

\* the child of the Suspense boundary
ProviderButton ==
    [node |-> "AuthBtn", provider |-> "google", text |-> "Continue with Google"]

\* the row of SocialLink elements
SocialLinks ==
    << [icon |-> "/icons/linkedin.png",
        url |-> "https://www.linkedin.com/company/decenter-ai/"],
       [icon |-> "/icons/telegram.png",
        url |-> "https://t.me/decenteraicomchat"],
       [icon |-> "/icons/x.png",
        url |-> "https://twitter.com/decenteraicom?s=21&t=th7q1ztmiuaE2PoODm3k0A"] >>

\* Variant: the fallback stays mounted next to the resolved child.
SuspenseKeepingFallback(resolved, fallback, child) ==
    IF resolved THEN <<fallback, child>> ELSE <<fallback>>

\* <Suspense fallback={fallback}>{child}</Suspense>: what the boundary shows
Suspense(resolved, fallback, child) ==
    IF resolved THEN <<child>> ELSE <<fallback>>

\* Variant: the social links sit inside the Suspense boundary, so they
\* appear only once the provider button has resolved.
AuthLinksInsideBoundary(resolved) ==
    [carousel |-> "LandingCarouselTwo",
     region |-> Suspense(resolved, Fallback, ProviderButton),
     links |-> IF resolved THEN SocialLinks ELSE << >>]

\* what Auth() displays, given whether the provider button has resolved
Auth(resolved) ==
    [carousel |-> "LandingCarouselTwo",
     region |-> Suspense(resolved, Fallback, ProviderButton),
     links |-> SocialLinks]

(***************************************************************************)
(* SpecPage: the page is requested, and the provider button of a page      *)
(* resolves.                                                               *)
(***************************************************************************)
InitPage == HookIdle /\ ConfigIdle /\ PageIdle

\* a request for /auth is rendered; the provider button either suspends
\* or is ready at once
RenderAuth ==
    /\ Len(pages) < MaxPages
    /\ \E resolved \in BOOLEAN :
          pages' = Append(pages, [resolved |-> resolved, view |-> Auth(resolved)])
    /\ UNCHANGED <<hookVars, configVars>>

\* the suspended provider button of a page resolves
ResolveAuthBtn ==
    /\ \E i \in DOMAIN pages :
          /\ ~pages[i].resolved
          /\ pages' = [pages EXCEPT ![i] = [resolved |-> TRUE, view |-> Auth(TRUE)]]
    /\ UNCHANGED <<hookVars, configVars>>

NextPage == RenderAuth \/ ResolveAuthBtn

SpecPage == InitPage /\ [][NextPage]_vars

(***************************************************************************)
(* C5.  The sign-in button region shows the "Loading..." placeholder in    *)
(* every state before the provider button (AuthBtn, provider "google") has *)
(* resolved and the provider button once it has resolved: never both,      *)
(* never neither, never the button before it resolves, and once the button *)
(* is shown the region does not go back to the placeholder.                *)
(***************************************************************************)
ShowsPlaceholder(p) == p.view.region = <<[node |-> "div", text |-> "Loading..."]>>
ShowsButton(p) ==
    /\ Len(p.view.region) = 1
    /\ p.view.region[1].node = "AuthBtn"
    /\ p.view.region[1].provider = "google"

RegionFollowsResolution ==
    \A i \in DOMAIN pages :
        /\ ~pages[i].resolved => ShowsPlaceholder(pages[i])
        /\ pages[i].resolved => ShowsButton(pages[i])
        /\ ShowsPlaceholder(pages[i]) # ShowsButton(pages[i])

ButtonStays ==
    \A i \in DOMAIN pages : ShowsButton(pages[i]) => ShowsButton(pages'[i])

C5_PlaceholderThenButton == []RegionFollowsResolution /\ [][ButtonStays]_vars

\* one page still shows the placeholder while another shows the button
C5_Witness ==
    \E i, j \in DOMAIN pages :
        /\ ~pages[i].resolved /\ ShowsPlaceholder(pages[i])
        /\ pages[j].resolved /\ ShowsButton(pages[j])

(***************************************************************************)
(* C6.  The Auth page renders exactly three outbound social links with     *)
(* fixed URLs (LinkedIn, Telegram, X/Twitter), present and unchanged in    *)
(* every state of the sign-in button region.                               *)
(***************************************************************************)
C6_ThreeFixedSocialLinks ==
    \A i \in DOMAIN pages :
        /\ Len(pages[i].view.links) = 3
        /\ [k \in 1..3 |-> pages[i].view.links[k].url]
              = << "https://www.linkedin.com/company/decenter-ai/",
                   "https://t.me/decenteraicomchat",
                   "https://twitter.com/decenteraicom?s=21&t=th7q1ztmiuaE2PoODm3k0A" >>

\* the three links are on a page showing the placeholder and on a page
\* showing the button
C6_Witness ==
    \E i, j \in DOMAIN pages :
        /\ ShowsPlaceholder(pages[i]) /\ Len(pages[i].view.links) = 3
        /\ ShowsButton(pages[j]) /\ Len(pages[j].view.links) = 3

(***************************************************************************)
(* SpecHook: an error event is captured, and the hook is applied to it,    *)
(* then again to its own output.                                           *)
(***************************************************************************)
InitHook == HookIdle /\ ConfigIdle /\ PageIdle

\* the monitoring client builds an error event
CaptureEvent ==
    /\ DOMAIN heap = {}
    /\ \E ref \in Refs, e \in Events :
          /\ heap' = [r \in {ref} |-> e]
          /\ captured' = Some(e)
    /\ UNCHANGED <<input, returned, threw, calls, configVars, pageVars>>

\* the hook is invoked on the event (the first time on the captured
\* event, later on what the previous call returned)
CallBeforeSend ==
    /\ calls < MaxCalls
    /\ threw = FALSE
    /\ \E ref \in DOMAIN heap :
          /\ calls > 0 => returned = Some(ref)
          /\ LET r == beforeSend(heap, ref) IN
                /\ input' = Some(heap[ref])
                /\ heap' = r.heap
                /\ returned' = r.ret
                /\ threw' = r.threw
    /\ calls' = calls + 1
    /\ UNCHANGED <<captured, configVars, pageVars>>

NextHook == CaptureEvent \/ CallBeforeSend

SpecHook == InitHook /\ [][NextHook]_vars

\* the event object the last call returned, as it now is in memory
ReturnedEvent == heap[returned[1]]
HeadersOf(event) == event.request[1].headers[1]
Redacted == {"Authorization", "Cookie"}

(***************************************************************************)
(* C1.  For every error event whose request.headers is present, the event  *)
(* returned by beforeSend has no "Authorization" and no "Cookie" key in    *)
(* request.headers, and every other header key present before the call     *)
(* (keys differing only in letter case included) is still present with the *)
(* same value.                                                             *)
(***************************************************************************)
C1_RedactsExactlyTwoHeaders ==
    (calls > 0 /\ hasHeaders(captured[1])) =>
        /\ returned # undefined
        /\ hasHeaders(ReturnedEvent)
        /\ Redacted \cap DOMAIN HeadersOf(ReturnedEvent) = {}
        /\ \A k \in (DOMAIN HeadersOf(captured[1])) \ Redacted :
              /\ k \in DOMAIN HeadersOf(ReturnedEvent)
              /\ HeadersOf(ReturnedEvent)[k] = HeadersOf(captured[1])[k]

\* an event carrying Authorization, Cookie and a lower-case cookie header
\* went through the hook and came back with the lower-case one only
C1_Witness ==
    /\ calls > 0
    /\ hasHeaders(captured[1])
    /\ DOMAIN HeadersOf(captured[1]) = {"Authorization", "Cookie", "cookie"}
    /\ returned # undefined
    /\ DOMAIN HeadersOf(ReturnedEvent) = {"cookie"}

(***************************************************************************)
(* C2.  For every error event with no request headers (request absent, or  *)
(* request present with headers absent), beforeSend returns the event      *)
(* unmodified: every field of the returned event equals the field of the   *)
(* input event, and no error is raised.                                    *)
(***************************************************************************)
C2_NoHeadersUnmodified ==
    (calls > 0 /\ ~hasHeaders(captured[1])) =>
        /\ threw = FALSE
        /\ returned # undefined
        /\ ReturnedEvent = captured[1]

\* an event without a request went through the hook
C2_Witness ==
    /\ calls > 0
    /\ captured[1].request = undefined
    /\ returned # undefined
    /\ ReturnedEvent.request = undefined

(***************************************************************************)
(* C8.  beforeSend never drops an event and changes nothing but the two    *)
(* redacted headers: it returns the very event it was given (never null,   *)
(* never another event), every field outside request.headers is unchanged, *)
(* and applying it to its own output returns an event equal to that        *)
(* output.                                                                 *)
(***************************************************************************)
C8_SameEventIdempotent ==
    calls > 0 =>
        /\ returned # undefined
        /\ returned[1] \in DOMAIN heap
        /\ ReturnedEvent.message = captured[1].message
        /\ (ReturnedEvent.request = undefined) = (captured[1].request = undefined)
        /\ captured[1].request # undefined =>
              /\ ReturnedEvent.request[1].url = captured[1].request[1].url
              /\ (ReturnedEvent.request[1].headers = undefined)
                    = (captured[1].request[1].headers = undefined)
        /\ calls > 1 => ReturnedEvent = input[1]

\* the hook ran twice on an event with both headers: the first call
\* changed the event, the second left it as the first returned it
C8_Witness ==
    /\ calls = 2
    /\ hasHeaders(captured[1])
    /\ Redacted \subseteq DOMAIN HeadersOf(captured[1])
    /\ returned # undefined
    /\ ReturnedEvent # captured[1]
    /\ ReturnedEvent = input[1]

====
